---------------------------- MODULE Spec2Model ----------------------------
(***************************************************************************)
(* A model of src/main.py (brainrot_generator): the text filter, the       *)
(* background picker, the subtitle pacer, the frame transform and the      *)
(* composition done by create_video_with_subtitles, and main's control     *)
(* flow.                                                                   *)
(*                                                                         *)
(* Texts are sequences of one-character strings.  Python floats are IEEE   *)
(* binary64 values, modelled bit for bit: a float is a sign, a 53-bit      *)
(* significand (most significant bit first) and the exponent of its last   *)
(* bit, and every arithmetic operation rounds to nearest, ties to even.    *)
(* Only values in the normal range are used (no overflow, no subnormals).  *)
(*                                                                         *)
(* A run of main starts at get_input_text: the resolution of the command   *)
(* line and of assets/config.json before it is left out.  moviepy's        *)
(* resize, crop, set_start, set_duration and CompositeVideoClip are        *)
(* modelled by what they compute for the arguments the program passes.     *)
(***************************************************************************)
EXTENDS Integers, Sequences, FiniteSets, TLC

VARIABLES
    pc,               \* position in main / create_video_with_subtitles
    outcome,          \* "running", "returned", "exit" (exit(1)) or "raised"
    stdout,           \* the messages printed so far
    trace,            \* the calls completed or started so far, in order
    input_file,       \* the input file: File(text) or NoFile
    text,             \* the text handed on (main's `text`)
    filtered,         \* filter_text applied to `text`
    refiltered,       \* filter_text applied to `filtered`
    folder,           \* the files of the background folder
    background_video, \* the video picked: File(entry) or NoFile
    audio_on_disk,    \* the .mp3 at audio_path: File(duration) or NoFile
    audio_duration,   \* audio.duration
    video_size,       \* video.size, <<width, height>>
    subtitle_parts,   \* what generate_subtitle_timestamps returned
    subtitle_clips,   \* the TextClips of the composition
    output_written    \* write_videofile wrote the output file

vars == <<pc, outcome, stdout, trace, input_file, text, filtered, refiltered,
          folder, background_video, audio_on_disk, audio_duration, video_size,
          subtitle_parts, subtitle_clips, output_written>>

\* What a path holds: NoFile, or File(x) for a file of content x
NoFile == <<>>
File(x) == <<x>>
Content(f) == f[1]

(***************************************************************************)
(* Bit strings (most significant bit first)                                *)
(***************************************************************************)
Zeros(k) == [i \in 1..k |-> 0]

AnyOne(b) == \E i \in 1..Len(b) : b[i] = 1

\* b without its leading zeros
StripZeros(b) ==
    IF ~AnyOne(b) THEN <<>>
    ELSE LET first == CHOOSE i \in 1..Len(b) :
                          b[i] = 1 /\ \A j \in 1..(i - 1) : b[j] = 0
         IN  SubSeq(b, first, Len(b))

RECURSIVE NatBits(_)
NatBits(n) == IF n = 0 THEN <<>> ELSE Append(NatBits(n \div 2), n % 2)

MaxOf(x, y) == IF x >= y THEN x ELSE y
MinOf(x, y) == IF x <= y THEN x ELSE y

PadLeft(b, n) == Zeros(n - Len(b)) \o b

\* Long division of the bit string b (b # <<>>) by the natural n > 0, entered
\* with remainder rem < n: the quotient bits and the remainder.  The string
\* is halved at each call and the first half is evaluated (the test on its
\* remainder) before the second is entered, so that the evaluation stays
\* shallow; the carries below are treated alike.
RECURSIVE DivFrom(_, _, _)
DivFrom(b, n, rem) ==
    IF Len(b) = 1
    THEN LET t == 2 * rem + b[1]
         IN  IF t >= n THEN [q |-> <<1>>, r |-> t - n] ELSE [q |-> <<0>>, r |-> t]
    ELSE LET h  == Len(b) \div 2
             hi == DivFrom(SubSeq(b, 1, h), n, rem)
             lo == DivFrom(SubSeq(b, h + 1, Len(b)), n, hi.r)
         IN  IF hi.r < n THEN [q |-> hi.q \o lo.q, r |-> lo.r] ELSE <<>>

DivBits(b, n) == DivFrom(b, n, 0)

\* b * k + carry for a bit string b # <<>>: Len(b) low bits and the carry out
RECURSIVE MulFrom(_, _, _)
MulFrom(b, k, carry) ==
    IF Len(b) = 1
    THEN LET t == b[1] * k + carry
         IN  [s |-> <<t % 2>>, c |-> t \div 2]
    ELSE LET h  == Len(b) \div 2
             lo == MulFrom(SubSeq(b, h + 1, Len(b)), k, carry)
             hi == MulFrom(SubSeq(b, 1, h), k, lo.c)
         IN  IF lo.c >= 0 THEN [s |-> hi.s \o lo.s, c |-> hi.c] ELSE <<>>

MulBits(b, k) == LET p == MulFrom(b, k, 0) IN NatBits(p.c) \o p.s

\* a + b + carry for bit strings of one length (# <<>>): sum bits, carry out
RECURSIVE AddFrom(_, _, _)
AddFrom(a, b, carry) ==
    IF Len(a) = 1
    THEN LET t == a[1] + b[1] + carry
         IN  [s |-> <<t % 2>>, c |-> t \div 2]
    ELSE LET h  == Len(a) \div 2
             lo == AddFrom(SubSeq(a, h + 1, Len(a)), SubSeq(b, h + 1, Len(b)), carry)
             hi == AddFrom(SubSeq(a, 1, h), SubSeq(b, 1, h), lo.c)
         IN  IF lo.c >= 0 THEN [s |-> hi.s \o lo.s, c |-> hi.c] ELSE <<>>

\* a - b - borrow for bit strings of one length (# <<>>)
RECURSIVE SubFrom(_, _, _)
SubFrom(a, b, borrow) ==
    IF Len(a) = 1
    THEN LET t == a[1] - b[1] - borrow
         IN  IF t < 0 THEN [s |-> <<t + 2>>, c |-> 1] ELSE [s |-> <<t>>, c |-> 0]
    ELSE LET h  == Len(a) \div 2
             lo == SubFrom(SubSeq(a, h + 1, Len(a)), SubSeq(b, h + 1, Len(b)), borrow)
             hi == SubFrom(SubSeq(a, 1, h), SubSeq(b, 1, h), lo.c)
         IN  IF lo.c >= 0 THEN [s |-> hi.s \o lo.s, c |-> hi.c] ELSE <<>>

\* a + b, and a - b for a >= b (a, b # <<>>)
AddBits(a, b) ==
    LET n == MaxOf(Len(a), Len(b))
        p == AddFrom(PadLeft(a, n), PadLeft(b, n), 0)
    IN  IF p.c = 1 THEN <<1>> \o p.s ELSE p.s

SubBits(a, b) ==
    LET n == MaxOf(Len(a), Len(b))
    IN  SubFrom(PadLeft(a, n), PadLeft(b, n), 0).s

\* a < b for bit strings without leading zeros
BitsLess(a, b) ==
    \/ Len(a) < Len(b)
    \/ /\ Len(a) = Len(b)
       /\ \E i \in 1..Len(a) :
            /\ a[i] < b[i]
            /\ \A j \in 1..(i - 1) : a[j] = b[j]

(***************************************************************************)
(* Python floats (IEEE binary64, round to nearest, ties to even)           *)
(***************************************************************************)
PrecisionBits == 53

Zero == [neg |-> FALSE, m |-> <<>>, e |-> 0]

\* The float nearest to (b + f) * 2^e, where b has no leading zero and
\* 0 <= f < 1 with f > 0 exactly when sticky.
Round(neg, b, e, sticky) ==
    LET P == PrecisionBits
        n == Len(b)
    IN  IF b = <<>> THEN Zero
        ELSE IF n <= P
        THEN [neg |-> neg, m |-> b \o Zeros(P - n), e |-> e - (P - n)]
        ELSE LET keep  == SubSeq(b, 1, P)
                 guard == b[P + 1]
                 st    == sticky \/ AnyOne(SubSeq(b, P + 2, n))
                 up    == guard = 1 /\ (st \/ keep[P] = 1)
                 inc   == AddBits(keep, <<1>>)
             IN  IF ~up THEN [neg |-> neg, m |-> keep, e |-> e + (n - P)]
                 ELSE IF Len(inc) > P
                 THEN [neg |-> neg, m |-> SubSeq(inc, 1, P), e |-> e + (n - P) + 1]
                 ELSE [neg |-> neg, m |-> inc, e |-> e + (n - P)]

\* x / n for a float x and an int n > 0 (the int converts exactly)
FDivInt(x, n) ==
    IF x.m = <<>> THEN Zero
    ELSE LET k == Len(NatBits(n)) + 2
             d == DivBits(x.m \o Zeros(k), n)
         IN  Round(x.neg, StripZeros(d.q), x.e - k, d.r # 0)

\* i * x for an int i >= 0 and a float x
FMulInt(i, x) ==
    IF i = 0 \/ x.m = <<>> THEN Zero
    ELSE Round(x.neg, MulBits(x.m, i), x.e, FALSE)

\* |a| < |b|
MagLess(a, b) ==
    IF b.m = <<>> THEN FALSE
    ELSE IF a.m = <<>> THEN TRUE
    ELSE a.e < b.e \/ (a.e = b.e /\ BitsLess(a.m, b.m))

FLess(a, b) ==
    IF a.neg /\ ~b.neg THEN TRUE
    ELSE IF ~a.neg /\ b.neg THEN FALSE
    ELSE IF a.neg THEN MagLess(b, a) ELSE MagLess(a, b)

FLeq(a, b) == a = b \/ FLess(a, b)

\* Python's min(a, b): b only when b < a
FMin(a, b) == IF FLess(b, a) THEN b ELSE a

FNeg(x) == IF x.m = <<>> THEN x ELSE [x EXCEPT !.neg = ~x.neg]

\* the significands of a and b over their common last-bit exponent
Aligned(a, b) ==
    LET low == MinOf(a.e, b.e)
    IN  [e |-> low, a |-> a.m \o Zeros(a.e - low), b |-> b.m \o Zeros(b.e - low)]

FAdd(a, b) ==
    IF a.m = <<>> THEN b
    ELSE IF b.m = <<>> THEN a
    ELSE LET al == Aligned(a, b)
         IN  IF a.neg = b.neg
             THEN Round(a.neg, AddBits(al.a, al.b), al.e, FALSE)
             ELSE IF MagLess(a, b)
             THEN Round(b.neg, StripZeros(SubBits(al.b, al.a)), al.e, FALSE)
             ELSE IF MagLess(b, a)
             THEN Round(a.neg, StripZeros(SubBits(al.a, al.b)), al.e, FALSE)
             ELSE Zero

FSub(a, b) == FAdd(a, FNeg(b))

\* The float of the natural n > 0, and the float with hexadecimal
\* significand 1.h1 h2 ... h13 and  binary exponent ex (float.fromhex).
FromInt(n) == Round(FALSE, NatBits(n), 0, FALSE)

HexDigit(h) == PadLeft(NatBits(h), 4)

RECURSIVE HexBits(_)
HexBits(hs) == IF hs = <<>> THEN <<>> ELSE HexDigit(Head(hs)) \o HexBits(Tail(hs))

FromHex(hs, ex) ==
    [neg |-> FALSE, m |-> <<1>> \o HexBits(hs), e |-> ex - (PrecisionBits - 1)]

(***************************************************************************)
(* Texts: str.split(), str.join(), str.lower(), str.strip()                *)
(***************************************************************************)
Whitespace == {" ", "\n", "\t"}

\* text.split(): the maximal runs of non-whitespace characters, in order
RECURSIVE SplitFrom(_, _, _)
SplitFrom(s, cur, acc) ==
    IF s = <<>> THEN (IF cur = <<>> THEN acc ELSE Append(acc, cur))
    ELSE IF Head(s) \in Whitespace
    THEN SplitFrom(Tail(s), <<>>, IF cur = <<>> THEN acc ELSE Append(acc, cur))
    ELSE SplitFrom(Tail(s), Append(cur, Head(s)), acc)

Split(s) == SplitFrom(s, <<>>, <<>>)

\* ' '.join(words)
RECURSIVE Join(_)
Join(words) ==
    IF words = <<>> THEN <<>>
    ELSE IF Len(words) = 1 THEN words[1]
    ELSE words[1] \o <<" ">> \o Join(Tail(words))

\* The ASCII letters with their lower-case forms, for word.lower()
UpperCase == <<"A", "B", "C", "D", "E", "F", "G", "H", "I", "J", "K", "L", "M",
               "N", "O", "P", "Q", "R", "S", "T", "U", "V", "W", "X", "Y", "Z">>
LowerCase == <<"a", "b", "c", "d", "e", "f", "g", "h", "i", "j", "k", "l", "m",
               "n", "o", "p", "q", "r", "s", "t", "u", "v", "w", "x", "y", "z">>

LowerChar(c) ==
    IF \E i \in 1..Len(UpperCase) : UpperCase[i] = c
    THEN LowerCase[CHOOSE i \in 1..Len(UpperCase) : UpperCase[i] = c]
    ELSE c

Lower(word) == [i \in 1..Len(word) |-> LowerChar(word[i])]

\* text.strip()
RECURSIVE LStrip(_)
LStrip(s) ==
    IF s = <<>> THEN <<>>
    ELSE IF Head(s) \in Whitespace THEN LStrip(Tail(s)) ELSE s

RECURSIVE RStrip(_)
RStrip(s) ==
    IF s = <<>> THEN <<>>
    ELSE IF s[Len(s)] \in Whitespace THEN RStrip(SubSeq(s, 1, Len(s) - 1)) ELSE s

Strip(s) == RStrip(LStrip(s))

(***************************************************************************)
(* filter_text                                                             *)
(***************************************************************************)
\* a table one of whose replacements is itself a key ("hell": "damn")
REPLACEMENTS_CHAINED ==
    (<<"d", "a", "m", "n">> :> <<"d", "a", "r", "n">>) @@
    (<<"h", "e", "l", "l">> :> <<"d", "a", "m", "n">>)

FAMILY_FRIENDLY_REPLACEMENTS ==
    (<<"d", "a", "m", "n">> :> <<"d", "a", "r", "n">>) @@
    (<<"h", "e", "l", "l">> :> <<"h", "e", "c", "k">>) @@
    (<<"s", "h", "i", "t">> :> <<"p", "o", "o", "p">>) @@
    (<<"f", "u", "c", "k">> :> <<"f", "u", "d", "g", "e">>) @@
    (<<"b", "i", "t", "c", "h">> :> <<"w", "i", "t", "c", "h">>) @@
    (<<"w", "h", "o", "r", "e">> :> <<"w", "i", "t", "c", "h">>) @@
    (<<"a", "s", "s", "h", "o", "l", "e">> :> <<"m", "e", "a", "n", "i", "e">>) @@
    (<<"b", "a", "s", "t", "a", "r", "d">> :> <<"r", "a", "s", "c", "a", "l">>)

\* FAMILY_FRIENDLY_REPLACEMENTS.get(word.lower(), word)
replace_word(word) ==
    IF Lower(word) \in DOMAIN FAMILY_FRIENDLY_REPLACEMENTS
    THEN FAMILY_FRIENDLY_REPLACEMENTS[Lower(word)]
    ELSE word

filter_text(txt) ==
    LET words == Split(txt)
    IN  Join([i \in 1..Len(words) |-> replace_word(words[i])])

(***************************************************************************)
(* pick_random_video                                                       *)
(***************************************************************************)
\* a glob that matches every file ("*" for "*.mp4")
glob_everything(dir) == dir

\* list(folder.glob("*.mp4"))
video_files(dir) == {f \in dir : f.suffix = ".mp4"}

\* random.choice(video_files): any one of them
random_choice(files) == files

(***************************************************************************)
(* The frame transform of create_video_with_subtitles                      *)
(***************************************************************************)
target_width == 1080
target_height == 1920

\* int(v / 2) for an integer v: Python's int() truncates toward zero
TruncHalf(v) == IF v >= 0 THEN v \div 2 ELSE -((-v) \div 2)

\* The length of pic[start:stop] along an axis of n pixels: a negative index
\* counts from the end, and both ends are clipped to the axis.
SliceIndex(i, n) == IF i < 0 THEN MaxOf(i + n, 0) ELSE MinOf(i, n)

SliceLen(start, stop, n) == MaxOf(SliceIndex(stop, n) - SliceIndex(start, n), 0)

\* video.resize(height=target_height): the new size is
\* (int(w * height / h), height)
resize(size, height) == <<(size[1] * height) \div size[2], height>>

\* video.crop(x_center=w / 2, y_center=h / 2, width=width, height=height):
\* every frame becomes pic[int(y1):int(y2), int(x1):int(x2)] with
\* x1 = x_center - width / 2, x2 = x_center + width / 2, and y alike.
crop(size, width, height) ==
    LET x1 == TruncHalf(size[1] - width)
        x2 == TruncHalf(size[1] + width)
        y1 == TruncHalf(size[2] - height)
        y2 == TruncHalf(size[2] + height)
    IN  <<SliceLen(x1, x2, size[1]), SliceLen(y1, y2, size[2])>>

(***************************************************************************)
(* generate_subtitle_timestamps                                            *)
(***************************************************************************)
\* the pairs taken without the step of 2 (range(len(words)))
word_groups_overlapping(words) ==
    [k \in 1..Len(words) |-> SubSeq(words, k, MinOf(k + 1, Len(words)))]

\* [words[i:i+2] for i in range(0, len(words), 2)]
word_groups(words) ==
    [k \in 1..((Len(words) + 1) \div 2) |->
        SubSeq(words, 2 * k - 1, MinOf(2 * k, Len(words)))]

\* a duration defaulted when falsy ((audio_duration or 1.0) / n)
segment_duration_defaulted(dur, n) ==
    FDivInt(IF dur = Zero THEN FromInt(1) ELSE dur, n)

\* audio_duration / len(word_groups)
segment_duration(dur, n) == FDivInt(dur, n)

\* i * segment_duration, for the 0-based index i
start_time(i, sd) == FMulInt(i, sd)

\* min((i + 1) * segment_duration, audio_duration)
end_time(i, sd, dur) == FMin(FMulInt(i + 1, sd), dur)

generate_subtitle_timestamps(txt, dur) ==
    LET words == Split(txt)
    IN  IF words = <<>> THEN <<>>
        ELSE LET groups == word_groups(words)
                 sd     == segment_duration(dur, Len(groups))
             IN  [k \in 1..Len(groups) |->
                    [text       |-> Join(groups[k]),
                     start_time |-> start_time(k - 1, sd),
                     end_time   |-> end_time(k - 1, sd, dur)]]

(***************************************************************************)
(* The subtitle layers of create_video_with_subtitles                      *)
(***************************************************************************)
\* TextClip(...).set_start(start_time).set_duration(end_time - start_time):
\* set_duration sets the clip's end to start + duration.  fadein(0.0) and
\* fadeout(0.0) change no frame.
TextClip(subtitle) ==
    LET duration == FSub(subtitle.end_time, subtitle.start_time)
    IN  [text     |-> subtitle.text,
         start    |-> subtitle.start_time,
         duration |-> duration,
         end      |-> FAdd(subtitle.start_time, duration)]

\* CompositeVideoClip shows, above the video, the clips playing at time t, in
\* list order: a clip plays at t when start <= t < end.
Playing(clip, t) == FLeq(clip.start, t) /\ FLess(t, clip.end)

VisibleAt(clips, t) == {k \in 1..Len(clips) : Playing(clips[k], t)}

(***************************************************************************)
(* Inputs                                                                  *)
(***************************************************************************)
\* all texts of at most n characters of the alphabet
TextsUpTo(alphabet, n) == UNION {[1..k -> alphabet] : k \in 0..n}

MaxTextLen == 9
PaceAlphabet == {"a", "b", " "}
PaceTexts == TextsUpTo(PaceAlphabet, MaxTextLen)

MaxFilterLen == 6
FilterAlphabet == {"h", "H", "e", "l", " ", "\n"}
FilterTexts == TextsUpTo(FilterAlphabet, MaxFilterLen)

MaxMainTextLen == 3
MainAlphabet == {"a", " "}
MainTexts == TextsUpTo(MainAlphabet, MaxMainTextLen)

\* audio durations in seconds: 0.0, 3.6 (0x1.ccccccccccccdp+1) and 10.0
\* (0x1.4p+3)
Durations ==
    {Zero,
     FromHex(<<12, 12, 12, 12, 12, 12, 12, 12, 12, 12, 12, 12, 13>>, 1),
     FromHex(<<4, 0, 0, 0, 0, 0, 0, 0, 0, 0, 0, 0, 0>>, 3)}

\* source frame sizes
MaxDim == 16
SourceSizes == (1..MaxDim) \X (1..MaxDim)

\* the files a background folder may hold, with their frame sizes
FileUniverse ==
    {[name |-> "a", suffix |-> ".mp4", size |-> <<1920, 1080>>],
     [name |-> "b", suffix |-> ".mp4", size |-> <<1080, 1920>>],
     [name |-> "c", suffix |-> ".mp4", size |-> <<720, 1920>>],
     [name |-> "d", suffix |-> ".mov", size |-> <<1920, 1080>>],
     [name |-> "notes", suffix |-> ".txt", size |-> <<0, 0>>]}

(***************************************************************************)
(* main and the functions it calls, step by step                           *)
(***************************************************************************)
\* get_input_text: read and strip the input file, then filter_text; a
\* missing file prints an error and exits.
get_input_text ==
    /\ pc = "get_input_text"
    /\ IF input_file = NoFile
       THEN /\ stdout' = Append(stdout, "Error: Input file not found.")
            /\ outcome' = "exit"
            /\ pc' = "done"
            /\ UNCHANGED <<text, trace>>
       ELSE /\ text' = filter_text(Strip(Content(input_file)))
            /\ trace' = Append(trace, "filter_text")
            /\ pc' = "pick_random_video"
            /\ UNCHANGED <<stdout, outcome>>
    /\ UNCHANGED <<input_file, filtered, refiltered, folder, background_video,
                   audio_on_disk, audio_duration, video_size, subtitle_parts,
                   subtitle_clips, output_written>>

\* generate_speech: the synthesized audio is written to audio_path.  main's
\* call of it is commented out, so no specification below takes this step.
generate_speech ==
    /\ pc = "generate_speech"
    /\ \E d \in Durations : audio_on_disk' = File(d)
    /\ trace' = Append(trace, "generate_speech")
    /\ stdout' = Append(stdout, "Audio saved")
    /\ pc' = "pick_random_video"
    /\ UNCHANGED <<outcome, input_file, text, filtered, refiltered, folder,
                   background_video, audio_duration, video_size, subtitle_parts,
                   subtitle_clips, output_written>>

\* pick_random_video: one of the folder's *.mp4 files; none prints an error
\* and exits.
pick_random_video ==
    /\ pc = "pick_random_video"
    /\ IF video_files(folder) = {}
       THEN /\ stdout' = Append(stdout, "No videos found in background folder!")
            /\ outcome' = "exit"
            /\ pc' = "done"
            /\ UNCHANGED background_video
       ELSE /\ \E f \in random_choice(video_files(folder)) : background_video' = File(f)
            /\ pc' = "open_clips"
            /\ UNCHANGED <<stdout, outcome>>
    /\ trace' = Append(trace, "pick_random_video")
    /\ UNCHANGED <<input_file, text, filtered, refiltered, folder, audio_on_disk,
                   audio_duration, video_size, subtitle_parts, subtitle_clips,
                   output_written>>

\* create_video_with_subtitles, lines 132-135: VideoFileClip and AudioFileClip
\* open the two files (a missing audio file raises), and the video takes the
\* audio's duration.
open_clips ==
    /\ pc = "open_clips"
    /\ IF audio_on_disk = NoFile
       THEN /\ outcome' = "raised"
            /\ pc' = "done"
            /\ UNCHANGED <<audio_duration, video_size>>
       ELSE /\ audio_duration' = Content(audio_on_disk)
            /\ video_size' = Content(background_video).size
            /\ pc' = "resize"
            /\ UNCHANGED outcome
    /\ UNCHANGED <<stdout, trace, input_file, text, filtered, refiltered, folder,
                   background_video, audio_on_disk, subtitle_parts, subtitle_clips,
                   output_written>>

\* line 137
resize_video ==
    /\ pc = "resize"
    /\ video_size' = resize(video_size, target_height)
    /\ pc' = "crop"
    /\ UNCHANGED <<outcome, stdout, trace, input_file, text, filtered, refiltered,
                   folder, background_video, audio_on_disk, audio_duration,
                   subtitle_parts, subtitle_clips, output_written>>

\* line 138
crop_video ==
    /\ pc = "crop"
    /\ video_size' = crop(video_size, target_width, target_height)
    /\ pc' = "generate_subtitle_timestamps"
    /\ UNCHANGED <<outcome, stdout, trace, input_file, text, filtered, refiltered,
                   folder, background_video, audio_on_disk, audio_duration,
                   subtitle_parts, subtitle_clips, output_written>>

\* line 140: the call returns the list (empty, after printing an error, when
\* the text has no words)
pace ==
    /\ pc = "generate_subtitle_timestamps"
    /\ subtitle_parts' = generate_subtitle_timestamps(text, audio_duration)
    /\ stdout' = IF Split(text) = <<>>
                 THEN Append(stdout, "Error: Input text is empty.")
                 ELSE stdout
    /\ trace' = Append(trace, "generate_subtitle_timestamps")
    /\ pc' = "subtitle_clips"
    /\ UNCHANGED <<outcome, input_file, text, filtered, refiltered, folder,
                   background_video, audio_on_disk, audio_duration, video_size,
                   output_written>>
    /\ UNCHANGED subtitle_clips

\* lines 142-151: one TextClip per subtitle, composed above the video
make_subtitle_clips ==
    /\ pc = "subtitle_clips"
    /\ subtitle_clips' = [k \in 1..Len(subtitle_parts) |-> TextClip(subtitle_parts[k])]
    /\ pc' = "write_videofile"
    /\ UNCHANGED <<outcome, stdout, trace, input_file, text, filtered, refiltered,
                   folder, background_video, audio_on_disk, audio_duration,
                   video_size, subtitle_parts, output_written>>

\* lines 152-154
write_videofile ==
    /\ pc = "write_videofile"
    /\ output_written' = TRUE
    /\ trace' = Append(trace, "write_videofile")
    /\ stdout' = Append(stdout, "Output saved")
    /\ outcome' = "returned"
    /\ pc' = "done"
    /\ UNCHANGED <<input_file, text, filtered, refiltered, folder, background_video,
                   audio_on_disk, audio_duration, video_size, subtitle_parts,
                   subtitle_clips>>

\* filter_text on a text, and on its own result
filter_once ==
    /\ pc = "filter_text"
    /\ filtered' = filter_text(text)
    /\ pc' = "filter_again"
    /\ UNCHANGED <<outcome, stdout, trace, input_file, text, refiltered, folder,
                   background_video, audio_on_disk, audio_duration, video_size,
                   subtitle_parts, subtitle_clips, output_written>>

filter_again ==
    /\ pc = "filter_again"
    /\ refiltered' = filter_text(filtered)
    /\ pc' = "done"
    /\ UNCHANGED <<outcome, stdout, trace, input_file, text, filtered, folder,
                   background_video, audio_on_disk, audio_duration, video_size,
                   subtitle_parts, subtitle_clips, output_written>>

(***************************************************************************)
(* Specifications                                                          *)
(***************************************************************************)
\* the state before anything ran, but for the inputs
Fresh ==
    /\ outcome = "running"
    /\ stdout = <<>>
    /\ trace = <<>>
    /\ filtered = <<>>
    /\ refiltered = <<>>
    /\ background_video = NoFile
    /\ subtitle_parts = <<>>
    /\ subtitle_clips = <<>>
    /\ output_written = FALSE

\* One run of main: the input file, the background folder and the audio file
\* left at audio_path are whatever the disk holds.
Init ==
    /\ Fresh
    /\ pc = "get_input_text"
    /\ input_file \in {File(t) : t \in MainTexts} \cup {NoFile}
    /\ folder \in SUBSET FileUniverse
    /\ audio_on_disk \in {File(d) : d \in Durations} \cup {NoFile}
    /\ text = <<>>
    /\ audio_duration = Zero
    /\ video_size = <<0, 0>>

Next ==
    \/ get_input_text
    \/ pick_random_video
    \/ open_clips
    \/ resize_video
    \/ crop_video
    \/ pace
    \/ make_subtitle_clips
    \/ write_videofile

Spec == Init /\ [][Next]_vars

\* generate_subtitle_timestamps and the subtitle clips on any text and duration
InitSubtitles ==
    /\ Fresh
    /\ pc = "generate_subtitle_timestamps"
    /\ text \in PaceTexts
    /\ audio_duration \in Durations
    /\ input_file = NoFile
    /\ folder = {}
    /\ audio_on_disk = NoFile
    /\ video_size = <<target_width, target_height>>

NextSubtitles == pace \/ make_subtitle_clips

SpecSubtitles == InitSubtitles /\ [][NextSubtitles]_vars

\* the frame transform on any source size
InitTransform ==
    /\ Fresh
    /\ pc = "resize"
    /\ video_size \in SourceSizes
    /\ text = <<>>
    /\ audio_duration = Zero
    /\ input_file = NoFile
    /\ folder = {}
    /\ audio_on_disk = NoFile

NextTransform == resize_video \/ crop_video

SpecTransform == InitTransform /\ [][NextTransform]_vars

\* filter_text on any text
InitFilter ==
    /\ Fresh
    /\ pc = "filter_text"
    /\ text \in FilterTexts
    /\ audio_duration = Zero
    /\ input_file = NoFile
    /\ folder = {}
    /\ audio_on_disk = NoFile
    /\ video_size = <<0, 0>>

NextFilter == filter_once \/ filter_again

SpecFilter == InitFilter /\ [][NextFilter]_vars

(***************************************************************************)
(* Properties                                                              *)
(***************************************************************************)
Occurs(call) == \E i \in 1..Len(trace) : trace[i] = call

\* generate_subtitle_timestamps has returned
Paced == Occurs("generate_subtitle_timestamps")

\* ceil(n / 2)
HalfUp(n) == (n + 1) \div 2

\* C1: for a text with n >= 1 words and audio_duration > 0, the pacer
\* returns ceil(n/2) segments, each ending where the next starts, the first
\* starting at 0 and the last ending at audio_duration exactly.
C1_SegmentsCoverDuration ==
    (Paced /\ Split(text) # <<>> /\ FLess(Zero, audio_duration)) =>
        LET parts == subtitle_parts
        IN  /\ Len(parts) = HalfUp(Len(Split(text)))
            /\ \A i \in 1..(Len(parts) - 1) :
                   parts[i].end_time = parts[i + 1].start_time
            /\ parts[1].start_time = Zero
            /\ parts[Len(parts)].end_time = audio_duration

\* C2: on a text without words the pacer fails: the call does not return
\* normally to its caller.
C2_EmptyTextFails ==
    (Paced /\ Split(text) = <<>>) => outcome \in {"raised", "exit"}

\* C3: after resize and crop the frame is exactly 1080 x 1920, whatever the
\* source size.
C3_TransformYieldsCanvas ==
    pc = "generate_subtitle_timestamps" => video_size = <<1080, 1920>>

\* C4: in a run of main, pacing starts only after filter_text and
\* generate_speech have both completed.
C4_PaceAfterSanitizeAndSynthesis ==
    \A i \in 1..Len(trace) :
        trace[i] = "generate_subtitle_timestamps" =>
            /\ \E j \in 1..(i - 1) : trace[j] = "filter_text"
            /\ \E j \in 1..(i - 1) : trace[j] = "generate_speech"

\* C5: a run whose input text has no words, or whose background folder has
\* no video, never reaches write_videofile and writes no output.
C5_ErrorsLeaveNoOutput ==
    (\/ input_file # NoFile /\ Split(Content(input_file)) = <<>>
     \/ {f \in folder : f.suffix = ".mp4"} = {})
        => (~output_written /\ ~Occurs("write_videofile"))

\* C6: once pick_random_video has run, the video picked is one of the
\* folder's .mp4 files (the only one, when there is one); with no such file
\* the run has exited and no video is picked.
C6_PickFromPool ==
    Occurs("pick_random_video") =>
        LET pool == {f \in folder : f.suffix = ".mp4"}
        IN  IF pool = {}
            THEN outcome = "exit" /\ pc = "done" /\ background_video = NoFile
            ELSE /\ background_video \in {File(f) : f \in pool}
                 /\ \A f \in pool : pool = {f} => background_video = File(f)

C6_Witness ==
    /\ Occurs("pick_random_video")
    /\ Cardinality({f \in folder : f.suffix = ".mp4"}) >= 2
    /\ \E f \in folder : f.suffix # ".mp4"
    /\ background_video # NoFile

\* C7: filter_text applied to its own result changes nothing.
C7_FilterIdempotent ==
    pc = "done" => refiltered = filtered

C7_Witness ==
    /\ pc = "done"
    /\ \E i \in 1..Len(Split(text)) :
           Split(filtered)[i] # Split(text)[i]
    /\ Len(Split(text)) >= 2
    /\ text # Join(Split(text))

\* C8: for a text with n >= 1 words and audio_duration = 0, the pacer
\* returns normally ceil(n/2) segments, each with start_time = end_time = 0.
C8_ZeroDurationSegments ==
    (Paced /\ Split(text) # <<>> /\ audio_duration = Zero) =>
        /\ outcome = "running"
        /\ stdout = <<>>
        /\ Len(subtitle_parts) = HalfUp(Len(Split(text)))
        /\ \A i \in 1..Len(subtitle_parts) :
               /\ subtitle_parts[i].start_time = Zero
               /\ subtitle_parts[i].end_time = Zero

C8_Witness ==
    /\ Paced
    /\ audio_duration = Zero
    /\ Len(Split(text)) >= 3
    /\ Len(subtitle_parts) >= 2

\* the words of the segments' texts, in segment order
RECURSIVE WordsOf(_)
WordsOf(parts) ==
    IF parts = <<>> THEN <<>>
    ELSE Split(parts[1].text) \o WordsOf(Tail(parts))

\* C9: segment i holds the words 2i-1 and 2i of the text (1-based), in
\* order; every segment has two words but the last, which has one exactly
\* when the word count is odd; the segments' words, in order, are the
\* text's words.
C9_ChunksOfTwoInOrder ==
    Paced =>
        LET words == Split(text)
            parts == subtitle_parts
        IN  /\ Len(parts) = HalfUp(Len(words))
            /\ \A i \in 1..Len(parts) :
                   LET w == Split(parts[i].text)
                   IN  /\ Len(w) \in {1, 2}
                       /\ w = SubSeq(words, 2 * i - 1, 2 * i - 2 + Len(w))
                       /\ Len(w) = 1 <=> (i = Len(parts) /\ Len(words) % 2 = 1)
            /\ WordsOf(parts) = words

C9_Witness ==
    /\ Paced
    /\ Len(Split(text)) = 5
    /\ Len(subtitle_parts) = 3
    /\ Split(subtitle_parts[1].text) # Split(subtitle_parts[2].text)
    /\ Len(Split(subtitle_parts[3].text)) = 1

\* the instants at which the timeline is examined: every start and end
ProbeTimes ==
    {Zero}
        \cup {subtitle_parts[k].start_time : k \in 1..Len(subtitle_parts)}
        \cup {subtitle_parts[k].end_time : k \in 1..Len(subtitle_parts)}
        \cup {subtitle_clips[k].end : k \in 1..Len(subtitle_clips)}

\* C10: each overlay is visible exactly during [start_time, end_time) of its
\* segment; so for a text with words and audio_duration > 0, at every
\* instant t with 0 <= t < audio_duration exactly one overlay is visible,
\* and later instants show later (or the same) segments.
C10_ExactlyOneOverlay ==
    (pc = "write_videofile" /\ Split(text) # <<>> /\ FLess(Zero, audio_duration)) =>
        /\ \A k \in 1..Len(subtitle_clips) : \A t \in ProbeTimes :
               Playing(subtitle_clips[k], t) <=>
                   (FLeq(subtitle_parts[k].start_time, t)
                        /\ FLess(t, subtitle_parts[k].end_time))
        /\ \A t \in ProbeTimes :
               (FLeq(Zero, t) /\ FLess(t, audio_duration)) =>
                   Cardinality(VisibleAt(subtitle_clips, t)) = 1
        /\ \A t1, t2 \in ProbeTimes :
               FLess(t1, t2) =>
                   \A k1 \in VisibleAt(subtitle_clips, t1) :
                       \A k2 \in VisibleAt(subtitle_clips, t2) : k1 <= k2

=============================================================================
